---- MODULE Spec2Model ----
(***************************************************************************)
(* Sprite-sheet layout detection (scripts/pets/detect_pet_layout.py,       *)
(* find_components) and frame slicing (scripts/pets/process_pet_sprites.py,*)
(* slice_image) as state machines.                                         *)
(*                                                                         *)
(* An image is a record [w, h, rects]: its size and a finite set of        *)
(* axis-parallel rectangles [x1, y1, x2, y2, a] (half-open, alpha a);      *)
(* the alpha of a pixel is the largest alpha of a rectangle covering it,   *)
(* and 0 where none does.  Only the alpha channel is modelled: it is the   *)
(* only channel the two programs read (p[3] > 10, getbbox of an RGBA       *)
(* image).                                                                 *)
(***************************************************************************)
EXTENDS Integers, Sequences, FiniteSets, TLC

(***************************************************************************)
(* Bounds of the model.                                                    *)
(***************************************************************************)
\* largest sheet given to find_components (pixels)
MaxW == 26
MaxH == 72
\* largest number of rectangles a sheet given to find_components is made of
MaxSprites == 2
\* side of the square sheets given to slice_image (pixels)
SheetSize == 456
\* largest rowBucketCount a caller of the ordering step is taken to supply
MaxRowBuckets == 2

(***************************************************************************)
(* Program constants.                                                      *)
(***************************************************************************)
scale == 2
AlphaThreshold == 10
PassesFour == 3 + 1
Passes == 3
\* the pass count the spec states its separation guarantee for
ClaimPasses == 3
MinSize == 20
pad == 5
TARGET_SIZE == 256
StripCount == 4

None == <<>>

Min(S) == CHOOSE m \in S : \A n \in S : m <= n
Max(S) == CHOOSE m \in S : \A n \in S : m >= n
Abs(n) == IF n < 0 THEN -n ELSE n

(***************************************************************************)
(* Images: pixel access, crop, getbbox, paste.                             *)
(***************************************************************************)
Rect(x1, y1, x2, y2, a) == [x1 |-> x1, y1 |-> y1, x2 |-> x2, y2 |-> y2, a |-> a]

\* alpha of pixel (x, y) of image im (0 outside every rectangle)
Alpha(im, x, y) ==
    LET hit == {r \in im.rects : r.x1 <= x /\ x < r.x2 /\ r.y1 <= y /\ y < r.y2}
    IN  IF hit = {} THEN 0 ELSE Max({r.a : r \in hit})

\* Image.crop(box): a new image of the box's size in the box's coordinates;
\* what lies outside the source is transparent.
Crop(im, box) ==
    LET cw == box[3] - box[1]
        ch == box[4] - box[2]
        clip(r) == Rect(Max({r.x1 - box[1], 0}), Max({r.y1 - box[2], 0}),
                        Min({r.x2 - box[1], cw}), Min({r.y2 - box[2], ch}), r.a)
    IN  [w |-> cw, h |-> ch,
         rects |-> {c \in {clip(r) : r \in im.rects} : c.x1 < c.x2 /\ c.y1 < c.y2}]

\* Image.getbbox() of an RGBA image: the box of the pixels with alpha > 0,
\* None when there is none.
GetBBox(im) ==
    LET vis == {r \in im.rects : r.a > 0 /\ r.x1 < r.x2 /\ r.y1 < r.y2}
    IN  IF vis = {} THEN None
        ELSE << Min({r.x1 : r \in vis}), Min({r.y1 : r \in vis}),
                Max({r.x2 : r \in vis}), Max({r.y2 : r \in vis}) >>

\* Image.new("RGBA", (size, size), (0, 0, 0, 0)) followed by paste(src, (ox, oy)):
\* src copied at the offset, what falls outside the canvas is cut off.
PasteOnNew(size, src, ox, oy) ==
    LET mv(r) == Rect(Max({r.x1 + ox, 0}), Max({r.y1 + oy, 0}),
                      Min({r.x2 + ox, size}), Min({r.y2 + oy, size}), r.a)
    IN  [w |-> size, h |-> size,
         rects |-> {c \in {mv(r) : r \in src.rects} : c.x1 < c.x2 /\ c.y1 < c.y2}]

EmptyImage == [w |-> 0, h |-> 0, rects |-> {}]

VARIABLES
    \* find_components
    img,            \* the sheet (Image.open(...).convert("RGBA"))
    pc,             \* position in find_components
    small_w,        \* w
    small_h,        \* h
    mask,           \* set of the indices i with mask[i] = 1
    dilated_mask,   \* set of the indices i with dilated_mask[i] = 1
    passNo,         \* dilation passes done
    visited,        \* set of the indices i with visited[i] = True
    i,              \* index of the row-major scan
    stack,          \* explicit stack of the flood fill
    mm,             \* [min_x, max_x, min_y, max_y] of the fill in progress
    components,     \* list of rough boxes
    ridx,           \* index of the refinement loop
    final_frames,   \* list of refined boxes
    \* history of the labeling (not program state)
    pushes,         \* cell -> number of times it was pushed
    filled,         \* cells popped by the fill in progress
    regions,        \* one record per finished fill: its cells, its rough box
    discovered,     \* components as appended, before the sort
    refined,        \* per sorted component: the refined box, or None
    \* slice_image
    s_pc,           \* position in slice_image
    s_img,          \* the sheet handed to slice_image
    s_name,         \* original_filename
    s_i,            \* loop index
    frames,         \* saved frames: index -> the frame and what it was made of
    out,            \* printed lines
    crops           \* history: index -> the box cropped and the crop

dvars == << img, pc, small_w, small_h, mask, dilated_mask, passNo, visited, i,
            stack, mm, components, ridx, final_frames, pushes, filled, regions,
            discovered, refined >>
svars == << s_pc, s_img, s_name, s_i, frames, out, crops >>
vars == << dvars, svars >>

(***************************************************************************)
(* find_components: occupancy mask.                                        *)
(***************************************************************************)
\* small_w = width // scale
SmallDimCeil(n) == (n + scale - 1) \div scale
SmallDim(n) == n \div scale

\* Image.resize(..., Image.NEAREST): output pixel k of `small` samples the
\* source pixel under its centre, floor((k + 1/2) * full / small).
SampleCoord(k, full, small) == ((2 * k + 1) * full) \div (2 * small)

Cells(w, h) == 0 .. (w * h - 1)

\* mask = [1 if p[3] > 10 else 0 for p in pixels]
OccupancyMask(im, w, h) ==
    {c \in Cells(w, h) :
        Alpha(im, SampleCoord(c % w, im.w, w), SampleCoord(c \div w, im.h, h))
            > AlphaThreshold}

BuildMask ==
    /\ pc = "start"
    /\ small_w' = SmallDim(img.w)
    /\ small_h' = SmallDim(img.h)
    /\ mask' = OccupancyMask(img, small_w', small_h')
    /\ dilated_mask' = mask'
    /\ passNo' = 0
    /\ pc' = "dilate"
    /\ UNCHANGED << img, visited, i, stack, mm, components, ridx, final_frames,
                    pushes, filled, regions, discovered, refined >>

(***************************************************************************)
(* find_components: dilation.                                              *)
(***************************************************************************)
\* the bounds-checked 4-connected neighbours of index c, in the code's order
Neighbors(c, w, h) ==
    LET x == c % w
        y == c \div w
    IN  (IF x > 0 THEN << c - 1 >> ELSE << >>)
        \o (IF x < w - 1 THEN << c + 1 >> ELSE << >>)
        \o (IF y > 0 THEN << c - w >> ELSE << >>)
        \o (IF y < h - 1 THEN << c + w >> ELSE << >>)

Range(s) == {s[k] : k \in DOMAIN s}

\* a pass that writes into the list it is reading, cell by cell in row-major
\* order (what the copy into new_mask prevents); f is the list of flags
RECURSIVE SetAll(_, _)
SetAll(f, s) == IF s = << >> THEN f ELSE SetAll([f EXCEPT ![Head(s)] = TRUE], Tail(s))
RECURSIVE InPlaceRow(_, _, _, _, _)
InPlaceRow(f, x, y, w, h) ==
    IF x < w /\ f[y * w + x]
    THEN InPlaceRow(SetAll(f, Neighbors(y * w + x, w, h)), x + 1, y, w, h)
    ELSE IF x < w THEN InPlaceRow(f, x + 1, y, w, h) ELSE f
RECURSIVE InPlaceRows(_, _, _, _)
InPlaceRows(f, y, w, h) ==
    IF y >= h THEN f ELSE InPlaceRows(InPlaceRow(f, 0, y, w, h), y + 1, w, h)
DilateInPlace(m, w, h) ==
    LET f == InPlaceRows([c \in Cells(w, h) |-> c \in m], 0, w, h)
    IN  {c \in Cells(w, h) : f[c]}

\* one pass: new_mask = list(dilated_mask); every set cell of dilated_mask
\* sets its neighbours in new_mask
DilateOnce(m, w, h) == m \cup UNION {Range(Neighbors(c, w, h)) : c \in m}

DilatePass ==
    /\ pc = "dilate"
    /\ passNo < Passes
    /\ dilated_mask' = DilateOnce(dilated_mask, small_w, small_h)
    /\ passNo' = passNo + 1
    /\ UNCHANGED << img, pc, small_w, small_h, mask, visited, i, stack, mm,
                    components, ridx, final_frames, pushes, filled, regions,
                    discovered, refined >>

\* visited = [False] * (w * h); components = []
StartLabeling ==
    /\ pc = "dilate"
    /\ passNo = Passes
    /\ visited' = {}
    /\ components' = << >>
    /\ i' = 0
    /\ pc' = "scan"
    /\ UNCHANGED << img, small_w, small_h, mask, dilated_mask, passNo, stack, mm,
                    ridx, final_frames, pushes, filled, regions, discovered, refined >>

(***************************************************************************)
(* find_components: connected components, iterative flood fill.           *)
(***************************************************************************)
IsSeed(c) == c \in dilated_mask /\ c \notin visited

\* for i in range(w * h): a cell that starts no component
ScanSkip ==
    /\ pc = "scan"
    /\ i < small_w * small_h
    /\ ~IsSeed(i)
    /\ i' = i + 1
    /\ UNCHANGED << img, pc, small_w, small_h, mask, dilated_mask, passNo,
                    visited, stack, mm, components, ridx, final_frames, pushes,
                    filled, regions, discovered, refined >>

Bump(f, c) == IF c \in DOMAIN f THEN [f EXCEPT ![c] = @ + 1] ELSE f @@ (c :> 1)

RECURSIVE BumpAll(_, _)
BumpAll(f, s) == IF s = << >> THEN f ELSE BumpAll(Bump(f, Head(s)), Tail(s))

\* stack = [i]; visited[i] = True
StartComponent ==
    /\ pc = "scan"
    /\ i < small_w * small_h
    /\ IsSeed(i)
    /\ mm' = [min_x |-> i % small_w, max_x |-> i % small_w,
              min_y |-> i \div small_w, max_y |-> i \div small_w]
    /\ stack' = << i >>
    /\ visited' = visited \cup {i}
    /\ pushes' = Bump(pushes, i)
    /\ filled' = {}
    /\ pc' = "fill"
    /\ UNCHANGED << img, small_w, small_h, mask, dilated_mask, passNo, i,
                    components, ridx, final_frames, regions, discovered, refined >>

\* visited[n] = True for every neighbour n appended to the stack
MarkPushedNever(vis, new) == vis
MarkPushed(vis, new) == vis \cup Range(new)

\* one iteration of `while stack:`
Pop ==
    /\ pc = "fill"
    /\ stack # << >>
    /\ LET curr == stack[Len(stack)]
           cx == curr % small_w
           cy == curr \div small_w
           new == SelectSeq(Neighbors(curr, small_w, small_h), IsSeed)
       IN  /\ mm' = [min_x |-> Min({mm.min_x, cx}), max_x |-> Max({mm.max_x, cx}),
                     min_y |-> Min({mm.min_y, cy}), max_y |-> Max({mm.max_y, cy})]
           /\ visited' = MarkPushed(visited, new)
           /\ stack' = SubSeq(stack, 1, Len(stack) - 1) \o new
           /\ pushes' = BumpAll(pushes, new)
           /\ filled' = filled \cup {curr}
    /\ UNCHANGED << img, pc, small_w, small_h, mask, dilated_mask, passNo, i,
                    components, ridx, final_frames, regions, discovered, refined >>

\* comp = [min_x * scale, min_y * scale, (max_x + 1) * scale, (max_y + 1) * scale]
RoughBox(m) ==
    << m.min_x * scale, m.min_y * scale, (m.max_x + 1) * scale, (m.max_y + 1) * scale >>

\* if (comp[2] - comp[0]) > 20 and (comp[3] - comp[1]) > 20
PassesFilter(comp) == (comp[3] - comp[1]) > MinSize /\ (comp[4] - comp[2]) > MinSize

\* the stack is empty: the component is finished, the scan goes on
FinishComponent ==
    /\ pc = "fill"
    /\ stack = << >>
    /\ LET comp == RoughBox(mm)
       IN  /\ components' = IF PassesFilter(comp) THEN Append(components, comp)
                            ELSE components
           /\ regions' = Append(regions, [cells |-> filled, box |-> comp,
                                          kept |-> PassesFilter(comp)])
    /\ i' = i + 1
    /\ pc' = "scan"
    /\ UNCHANGED << img, small_w, small_h, mask, dilated_mask, passNo, visited,
                    stack, mm, ridx, final_frames, pushes, filled, discovered,
                    refined >>

(***************************************************************************)
(* find_components: sort.                                                  *)
(***************************************************************************)
\* get_centroid(c), doubled: the rough boxes are integers, so
\* (cx, cy) = ((c[0] + c[2]) / 2, (c[1] + c[3]) / 2) is a pair of half-integers
Centroid2(c) == << c[1] + c[3], c[2] + c[4] >>

\* the key (cy // (height / 2), cx): floor(cy / (height / 2)) is
\* floor(2 cy / height); cx is kept doubled, which orders the same
SortKey(c, height) == << Centroid2(c)[2] \div height, Centroid2(c)[1] >>

KeyLess(a, b) == a[1] < b[1] \/ (a[1] = b[1] /\ a[2] < b[2])

\* list.sort is stable: an element goes after every element whose key is not
\* greater than its own
RECURSIVE InsertByKey(_, _, _)
InsertByKey(s, c, height) ==
    IF s = << >> THEN << c >>
    ELSE IF KeyLess(SortKey(c, height), SortKey(Head(s), height))
         THEN << c >> \o s
         ELSE << Head(s) >> \o InsertByKey(Tail(s), c, height)

RECURSIVE SortFrom(_, _, _)
SortFrom(done, rest, height) ==
    IF rest = << >> THEN done
    ELSE SortFrom(InsertByKey(done, Head(rest), height), Tail(rest), height)

SortComponents(s, height) == SortFrom(<< >>, s, height)

\* the scan is over: components.sort(key=...)
Sort ==
    /\ pc = "scan"
    /\ i = small_w * small_h
    /\ discovered' = components
    /\ components' = SortComponents(components, img.h)
    /\ ridx' = 1
    /\ final_frames' = << >>
    /\ refined' = << >>
    /\ pc' = "refine"
    /\ UNCHANGED << img, small_w, small_h, mask, dilated_mask, passNo, visited, i,
                    stack, mm, pushes, filled, regions >>

(***************************************************************************)
(* find_components: refinement against the original image.                 *)
(***************************************************************************)
\* the rough box padded by `pad` and clamped to the image
PaddedBox(rough, im) ==
    << Max({0, rough[1] - pad}), Max({0, rough[2] - pad}),
       Min({im.w, rough[3] + pad}), Min({im.h, rough[4] + pad}) >>

\* [x1 + bbox[0], y1 + bbox[1], x1 + bbox[2], y1 + bbox[3]]
GlobalBoxLocal(x1, y1, bbox) == bbox
GlobalBox(x1, y1, bbox) == << x1 + bbox[1], y1 + bbox[2], x1 + bbox[3], y1 + bbox[4] >>

\* one iteration of `for rough_box in components:`
RefineStep ==
    /\ pc = "refine"
    /\ ridx <= Len(components)
    /\ LET box == PaddedBox(components[ridx], img)
           bbox == GetBBox(Crop(img, box))
       IN  IF bbox # None
           THEN /\ final_frames' = Append(final_frames, GlobalBox(box[1], box[2], bbox))
                /\ refined' = Append(refined, GlobalBox(box[1], box[2], bbox))
           ELSE /\ final_frames' = final_frames
                /\ refined' = Append(refined, None)
    /\ ridx' = ridx + 1
    /\ UNCHANGED << img, pc, small_w, small_h, mask, dilated_mask, passNo, visited,
                    i, stack, mm, components, pushes, filled, regions, discovered >>

\* return final_frames
Return ==
    /\ pc = "refine"
    /\ ridx > Len(components)
    /\ pc' = "done"
    /\ UNCHANGED << img, small_w, small_h, mask, dilated_mask, passNo, visited, i,
                    stack, mm, components, ridx, final_frames, pushes, filled,
                    regions, discovered, refined >>

(***************************************************************************)
(* Sheets given to find_components.                                        *)
(***************************************************************************)
\* opaque blocks of 10 x 10 pixels (5 x 5 mask cells), one with an odd origin
Blocks ==
    { Rect(6, 6, 16, 16, 255),   Rect(8, 6, 18, 16, 255),
      Rect(6, 30, 16, 40, 255),  Rect(8, 30, 18, 40, 255),
      Rect(6, 28, 16, 38, 255),  Rect(7, 31, 16, 40, 255),
      Rect(6, 54, 16, 64, 255),  Rect(8, 54, 18, 64, 255) }
\* single opaque pixels
Specks == { Rect(1, 1, 2, 2, 255), Rect(23, 69, 24, 70, 255) }
\* faint areas: visible (alpha > 0) and below the mask's threshold
Faint == { Rect(2, 8, 6, 10, 5), Rect(6, 40, 16, 44, 5) }

\* an opaque sheet: every mask cell is set
Solid == { Rect(0, 0, MaxW - 1, MaxH - 1, 255) }

SheetRects == Blocks \cup Specks \cup Faint

Sheets ==
    { [w |-> MaxW - d, h |-> MaxH - d, rects |-> R] :
        d \in {0, 1},
        R \in {S \in SUBSET SheetRects : Cardinality(S) <= MaxSprites}
                 \cup {Solid} }

SliceIdle ==
    /\ s_pc = "idle"
    /\ s_img = EmptyImage
    /\ s_name = ""
    /\ s_i = 0
    /\ frames = << >>
    /\ out = << >>
    /\ crops = << >>

Init ==
    /\ img \in Sheets
    /\ pc = "start"
    /\ small_w = 0
    /\ small_h = 0
    /\ mask = {}
    /\ dilated_mask = {}
    /\ passNo = 0
    /\ visited = {}
    /\ i = 0
    /\ stack = << >>
    /\ mm = [min_x |-> 0, max_x |-> 0, min_y |-> 0, max_y |-> 0]
    /\ components = << >>
    /\ ridx = 0
    /\ final_frames = << >>
    /\ pushes = << >>
    /\ filled = {}
    /\ regions = << >>
    /\ discovered = << >>
    /\ refined = << >>
    /\ SliceIdle

Next ==
    \/ (BuildMask /\ UNCHANGED svars)
    \/ (DilatePass /\ UNCHANGED svars)
    \/ (StartLabeling /\ UNCHANGED svars)
    \/ (ScanSkip /\ UNCHANGED svars)
    \/ (StartComponent /\ UNCHANGED svars)
    \/ (Pop /\ UNCHANGED svars)
    \/ (FinishComponent /\ UNCHANGED svars)
    \/ (Sort /\ UNCHANGED svars)
    \/ (RefineStep /\ UNCHANGED svars)
    \/ (Return /\ UNCHANGED svars)

Spec == Init /\ [][Next]_vars

\* find_components is one sequential call: whenever it has a next step it
\* takes it
FairSpec == Spec /\ WF_vars(Next)

(***************************************************************************)
(* Properties of find_components.                                          *)
(***************************************************************************)
CellX(c) == c % small_w
CellY(c) == c \div small_w
Manhattan(c, d) == Abs(CellX(c) - CellX(d)) + Abs(CellY(c) - CellY(d))

RECURSIVE SumCells(_)
SumCells(rs) == IF rs = << >> THEN 0 ELSE Cardinality(Head(rs).cells) + SumCells(Tail(rs))

LabelingOver == pc \in {"refine", "done"}

\* C1: over a labeling run every set cell of the dilated mask is marked
\* visited and pushed exactly once and no unset cell ever is; the finished
\* components are pairwise disjoint, and once the scan is over they cover
\* exactly the set cells, every set cell lying in exactly one component
\* (kept or rejected by the size filter), the cell counts summing to the
\* number of set cells.
C1_EachSetCellOnce ==
    /\ \A c \in DOMAIN pushes : pushes[c] = 1 /\ c \in dilated_mask
    /\ visited = DOMAIN pushes
    /\ \A a, b \in DOMAIN regions :
          a # b => regions[a].cells \cap regions[b].cells = {}
    /\ \A a \in DOMAIN regions :
          regions[a].cells # {} /\ regions[a].cells \subseteq visited
    /\ LabelingOver =>
          /\ visited = dilated_mask
          /\ UNION {regions[a].cells : a \in DOMAIN regions} = dilated_mask
          /\ SumCells(regions) = Cardinality(dilated_mask)
          /\ Len(components) = Cardinality({a \in DOMAIN regions : regions[a].kept})

C1_Witness ==
    /\ pc = "done"
    /\ \E a, b \in DOMAIN regions : regions[a].kept /\ ~regions[b].kept
    /\ dilated_mask # Cells(small_w, small_h)
    /\ Cardinality(dilated_mask) > 100

\* C2: after k passes (k = 0 .. 3, the passes the code runs) a cell is set
\* iff it lies within Manhattan distance k of a cell set in the original
\* mask, distances taken between grid coordinates (no wrap across row ends).
C2_DilationIsManhattanBall ==
    pc = "dilate" =>
        dilated_mask =
            {c \in Cells(small_w, small_h) :
                \E s \in mask : Manhattan(c, s) <= passNo}

\* a set cell at the right end of a row whose successor index, the first
\* cell of the next row, stays unset after the three passes
C2_Witness ==
    /\ pc = "dilate"
    /\ passNo = Passes
    /\ \E c \in dilated_mask :
          /\ CellX(c) = small_w - 1
          /\ c + 1 < small_w * small_h
          /\ c + 1 \notin dilated_mask

\* the n-bucket key of the ordering step: floor(cy / (height / n)), cx
\* (with the centroid doubled: floor(cy2 * n / (2 * height)), cx2)
BucketKey(c, n, height) ==
    << (Centroid2(c)[2] * n) \div (2 * height), Centroid2(c)[1] >>

Perms(n) == {p \in [1 .. n -> 1 .. n] : \A a, b \in 1 .. n : a # b => p[a] # p[b]}

\* s is d arranged ascending by the n-bucket key, equal keys in d's order
IsStableSortOf(s, d, n, height) ==
    /\ Len(s) = Len(d)
    /\ \E p \in Perms(Len(s)) :
          /\ \A k \in 1 .. Len(s) : s[k] = d[p[k]]
          /\ \A k, l \in 1 .. Len(s) :
                k < l =>
                    \/ KeyLess(BucketKey(s[k], n, height), BucketKey(s[l], n, height))
                    \/ /\ BucketKey(s[k], n, height) = BucketKey(s[l], n, height)
                       /\ p[k] < p[l]

\* C3: the ordering step arranges the rectangles ascending by
\* (rowBucket, centroidX) with rowBucket = floor(centroidY / (imageHeight /
\* rowBucketCount)) for the rowBucketCount the caller supplies (1 for a
\* strip, 2 for a 2 x 2 grid), equal keys keeping discovery order.
C3_OrderedBySuppliedBucketCount ==
    LabelingOver =>
        \A n \in 1 .. MaxRowBuckets : IsStableSortOf(components, discovered, n, img.h)

\* what the code does: the same with the bucket count fixed at 2
C3_OrderedByTwoBuckets ==
    LabelingOver => IsStableSortOf(components, discovered, 2, img.h)

\* C11: the sequence find_components returns is ascending in
\* (rowBucket, centroidX) with the key computed from the returned, refined
\* rectangles themselves (two row buckets, as the code has them).
C11_ReturnedOrderedByRefinedKey ==
    pc = "done" =>
        \A k, l \in DOMAIN final_frames :
            k < l => ~KeyLess(BucketKey(final_frames[l], 2, img.h),
                              BucketKey(final_frames[k], 2, img.h))

ScanOver == pc = "scan" /\ i = small_w * small_h

\* C12: for every mask, an all-set one included, labeling terminates: the
\* stack never holds a cell twice (a cell is marked when it is pushed), every
\* flood fill's stack eventually empties, the row-major scan eventually
\* reaches the end of the mask, and at that point every set cell is visited.
C12_LabelingTerminates ==
    /\ [](Len(stack) = Cardinality(Range(stack)))
    /\ [](ScanOver => visited = dilated_mask)
    /\ (pc = "fill") ~> (pc = "fill" /\ stack = << >>)
    /\ (pc = "start") ~> ScanOver

\* the scan is over on a mask that is all set and was filled as one component
C12_Witness ==
    /\ ScanOver
    /\ small_w * small_h > 0
    /\ dilated_mask = Cells(small_w, small_h)
    /\ mask = dilated_mask
    /\ Len(regions) = 1

\* the pixels with alpha > 0 inside the rough box padded by 5 and clamped
VisibleIn(rough) ==
    {q \in (Max({0, rough[1] - pad}) .. (Min({img.w, rough[3] + pad}) - 1))
           \X (Max({0, rough[2] - pad}) .. (Min({img.h, rough[4] + pad}) - 1)) :
        Alpha(img, q[1], q[2]) > 0}

TightBox(P) ==
    << Min({q[1] : q \in P}), Min({q[2] : q \in P}),
       Max({q[1] : q \in P}) + 1, Max({q[2] : q \in P}) + 1 >>

\* C4: for every component that passed the size filter, refinement yields
\* the tight bounding box of the pixels with alpha > 0 of the original image
\* inside the rough box padded by 5 px and clamped to the image, and none
\* when there is no such pixel; the emitted rectangles are exactly the
\* results that are not none, in order, each with 0 <= x1 < x2 <= width and
\* 0 <= y1 < y2 <= height.
C4_RefinedIsTightBox ==
    LabelingOver =>
        /\ \A k \in DOMAIN refined :
              LET P == VisibleIn(components[k])
              IN  IF P = {} THEN refined[k] = None
                  ELSE /\ refined[k] = TightBox(P)
                       /\ 0 <= refined[k][1] /\ refined[k][1] < refined[k][3]
                       /\ refined[k][3] <= img.w
                       /\ 0 <= refined[k][2] /\ refined[k][2] < refined[k][4]
                       /\ refined[k][4] <= img.h
        /\ final_frames = SelectSeq(refined, LAMBDA b : b # None)

\* two frames emitted, one of them tighter than its rough box on every side
\* and not aligned to the mask's grid
C4_Witness ==
    /\ pc = "done"
    /\ Len(final_frames) = 2
    /\ \E k \in DOMAIN refined :
          /\ refined[k] # None
          /\ refined[k][1] % scale = 1
          /\ refined[k][1] > components[k][1] /\ refined[k][3] < components[k][3]
          /\ refined[k][2] > components[k][2] /\ refined[k][4] < components[k][4]

\* C9 (as the spec states it): the mask is ceil(width / scale) wide and
\* ceil(height / scale) high.
C9_MaskDimsAreCeil ==
    pc # "start" =>
        /\ scale * (small_w - 1) < img.w /\ img.w <= scale * small_w
        /\ scale * (small_h - 1) < img.h /\ img.h <= scale * small_h

\* C9 (amended): the mask is floor(width / scale) wide and floor(height /
\* scale) high, scale being 2, and holds no cell outside that grid.
C9_MaskDimsAreFloor ==
    pc # "start" =>
        /\ scale * small_w <= img.w /\ img.w < scale * (small_w + 1)
        /\ scale * small_h <= img.h /\ img.h < scale * (small_h + 1)
        /\ mask \subseteq Cells(small_w, small_h)

C9_Witness ==
    /\ pc = "dilate"
    /\ img.w % scale # 0
    /\ img.h % scale # 0
    /\ mask # {}

\* the mask cells of the sprite drawn by rectangle r
SpriteCells(r) ==
    {c \in mask :
        LET x == SampleCoord(CellX(c), img.w, small_w)
            y == SampleCoord(CellY(c), img.h, small_h)
        IN  r.x1 <= x /\ x < r.x2 /\ r.y1 <= y /\ y < r.y2}

Sprites == {r \in img.rects : r.a > AlphaThreshold /\ SpriteCells(r) # {}}

\* the number of empty cells on a shortest 4-connected path between A and B
Gap(A, B) == Min({Manhattan(a, b) : a \in A, b \in B}) - 1

WellSeparated ==
    \A r, q \in Sprites :
        r # q => Gap(SpriteCells(r), SpriteCells(q)) > 2 * ClaimPasses

RegionsOf(r) == {a \in DOMAIN regions : regions[a].cells \cap SpriteCells(r) # {}}

\* C10: when every two distinct sprites of the undilated mask are more than
\* 2 * 3 empty cells apart, no component of the dilated mask holds cells of
\* two sprites, every sprite lies in one component, the number of components
\* labeled equals the number of sprites, and the components kept are those
\* of the sprites whose component passes the size filter.
C10_SeparatedSpritesStayApart ==
    (LabelingOver /\ WellSeparated) =>
        /\ \A r, q \in Sprites : r # q => RegionsOf(r) \cap RegionsOf(q) = {}
        /\ \A r \in Sprites : Cardinality(RegionsOf(r)) = 1
        /\ Len(regions) = Cardinality(Sprites)
        /\ Len(components) =
              Cardinality({r \in Sprites : \E a \in RegionsOf(r) : regions[a].kept})

\* two sprites exactly 2 * 3 + 1 empty cells apart, both kept
C10_Witness ==
    /\ pc = "done"
    /\ Cardinality(Sprites) = 2
    /\ \E r, q \in Sprites :
          r # q /\ Gap(SpriteCells(r), SpriteCells(q)) = 2 * ClaimPasses + 1
    /\ Len(components) = 2

\* outside the guarantee: two sprites exactly 2 * 3 empty cells apart end up
\* in one component
C10_MergedAtSixNeverHappens ==
    ~ /\ pc = "done"
      /\ Cardinality(Sprites) = 2
      /\ \E r, q \in Sprites :
            r # q /\ Gap(SpriteCells(r), SpriteCells(q)) = 2 * ClaimPasses
      /\ Len(regions) = 1

(***************************************************************************)
(* slice_image (process_pet_sprites.py).                                   *)
(***************************************************************************)
\* PET_CONFIGS: Union Box [x1, y1, x2, y2] and count
PET_CONFIGS ==
    [ black_bear_walk_v2 |-> [bbox |-> << 12, 188, 444, 269 >>, count |-> 4],
      salamander_walk    |-> [bbox |-> << 12, 214, 444, 248 >>, count |-> 4],
      muntjac_walk       |-> [bbox |-> << 12, 177, 446, 280 >>, count |-> 4],
      hare_walk          |-> [bbox |-> << 13, 168, 448, 289 >>, count |-> 4] ]

\* LEOPARD_CAT_COORDS, indexed from 0 as enumerate() does
LEOPARD_CAT_COORDS ==
    [ k \in 0 .. 3 |->
        CASE k = 0 -> << 10, 105, 221, 210 >>
          [] k = 1 -> << 235, 105, 446, 210 >>
          [] k = 2 -> << 14, 254, 231, 359 >>
          [] k = 3 -> << 219, 254, 442, 359 >> ]

\* the file names containing "leopard_cat_walk"
LeopardNames == {"leopard_cat_walk"}
StripNames == DOMAIN PET_CONFIGS
OtherNames == {"unknown_sheet"}

\* fw = uw // 4
FrameWidthCeil(uw) == (uw + StripCount - 1) \div StripCount
FrameWidth(uw) == uw \div StripCount

\* the box (i * fw, 0, (i + 1) * fw, uh) cropped from the union
StripBox(k, fw, uh) == << k * fw, 0, (k + 1) * fw, uh >>

\* ox = (TARGET_SIZE - content.width) // 2
CenterOffsetWhole(dim) == TARGET_SIZE - dim
CenterOffset(dim) == (TARGET_SIZE - dim) \div 2

\* frame = Image.new(...); frame.paste(content, (ox, oy)); frame.save(...)
SavedFrame(content) ==
    [image |-> PasteOnNew(TARGET_SIZE, content,
                          CenterOffset(content.w), CenterOffset(content.h)),
     content |-> content,
     ox |-> CenterOffset(content.w),
     oy |-> CenterOffset(content.h)]

\* entry of slice_image: the branch on original_filename
Enter ==
    /\ s_pc = "entry"
    /\ s_i' = 0
    /\ IF s_name \in LeopardNames
       THEN /\ out' = Append(out, << "processing_grid" >>)
            /\ s_pc' = "grid"
       ELSE IF s_name \notin DOMAIN PET_CONFIGS
            THEN /\ out' = Append(out, << "no_config" >>)
                 /\ s_pc' = "done"
            ELSE /\ out' = out
                 /\ s_pc' = "strip"
    /\ UNCHANGED << s_img, s_name, frames, crops >>

\* one iteration of `for i, (x1, y1, x2, y2) in enumerate(LEOPARD_CAT_COORDS)`
GridStep ==
    /\ s_pc = "grid"
    /\ s_i < 4
    /\ LET crop == Crop(s_img, LEOPARD_CAT_COORDS[s_i])
       IN  /\ frames' = frames @@ (s_i :> SavedFrame(crop))
           /\ crops' = crops @@ (s_i :> [box |-> LEOPARD_CAT_COORDS[s_i], crop |-> crop])
    /\ out' = Append(out, << "saved", s_i >>)
    /\ s_i' = s_i + 1
    /\ UNCHANGED << s_pc, s_img, s_name >>

GridReturn ==
    /\ s_pc = "grid"
    /\ s_i = 4
    /\ s_pc' = "done"
    /\ UNCHANGED << s_img, s_name, s_i, frames, out, crops >>

\* one iteration of `for i in range(4)`
StripStep ==
    /\ s_pc = "strip"
    /\ s_i < StripCount
    /\ LET union == Crop(s_img, PET_CONFIGS[s_name].bbox)
           fw == FrameWidth(union.w)
           box == StripBox(s_i, fw, union.h)
           strip == Crop(union, box)
           bbox == GetBBox(strip)
       IN  /\ crops' = crops @@ (s_i :> [box |-> box, crop |-> strip])
           /\ IF bbox # None
              THEN /\ frames' = frames @@ (s_i :> SavedFrame(Crop(strip, bbox)))
                   /\ out' = Append(out, << "saved", s_i >>)
              ELSE /\ frames' = frames
                   /\ out' = out
    /\ s_i' = s_i + 1
    /\ UNCHANGED << s_pc, s_img, s_name >>

StripReturn ==
    /\ s_pc = "strip"
    /\ s_i = StripCount
    /\ s_pc' = "done"
    /\ UNCHANGED << s_img, s_name, s_i, frames, out, crops >>

(***************************************************************************)
(* Sheets given to slice_image.                                            *)
(***************************************************************************)
\* the layout rectangle of frame k of sheet `name`, in sheet coordinates
Slot(name, k) ==
    IF name \in LeopardNames THEN LEOPARD_CAT_COORDS[k]
    ELSE LET b == PET_CONFIGS[name].bbox
             fw == (b[3] - b[1]) \div PET_CONFIGS[name].count
         IN  << b[1] + k * fw, b[2], b[1] + (k + 1) * fw, b[4] >>

\* what a sheet may hold in a slot: nothing, a sprite filling it, a smaller
\* sprite off its centre, a sprite reaching 2 px past its right edge
SlotFill(b, kind) ==
    CASE kind = "none"  -> {}
      [] kind = "full"  -> {Rect(b[1], b[2], b[3], b[4], 255)}
      [] kind = "inset" -> {Rect(b[1] + 3, b[2] + 10, b[3] - 8, b[4] - 3, 200)}
      [] kind = "wide"  -> {Rect(b[1] + 5, b[2] + 1, b[3] + 2, b[4], 255)}

FillKinds == {"none", "full", "inset", "wide"}

SliceSheets(name) ==
    IF name \in OtherNames THEN {[w |-> SheetSize, h |-> SheetSize, rects |-> {}]}
    ELSE { [w |-> SheetSize, h |-> SheetSize,
            rects |-> UNION {SlotFill(Slot(name, k), f[k]) : k \in 0 .. 3}] :
              f \in [0 .. 3 -> FillKinds] }

DetectIdle ==
    /\ img = EmptyImage
    /\ pc = "idle"
    /\ small_w = 0
    /\ small_h = 0
    /\ mask = {}
    /\ dilated_mask = {}
    /\ passNo = 0
    /\ visited = {}
    /\ i = 0
    /\ stack = << >>
    /\ mm = [min_x |-> 0, max_x |-> 0, min_y |-> 0, max_y |-> 0]
    /\ components = << >>
    /\ ridx = 0
    /\ final_frames = << >>
    /\ pushes = << >>
    /\ filled = {}
    /\ regions = << >>
    /\ discovered = << >>
    /\ refined = << >>

SliceInit ==
    /\ DetectIdle
    /\ s_pc = "entry"
    /\ s_name \in StripNames \cup LeopardNames \cup OtherNames
    /\ s_img \in SliceSheets(s_name)
    /\ s_i = 0
    /\ frames = << >>
    /\ out = << >>
    /\ crops = << >>

SliceNext ==
    \/ (Enter /\ UNCHANGED dvars)
    \/ (GridStep /\ UNCHANGED dvars)
    \/ (GridReturn /\ UNCHANGED dvars)
    \/ (StripStep /\ UNCHANGED dvars)
    \/ (StripReturn /\ UNCHANGED dvars)

SliceSpec == SliceInit /\ [][SliceNext]_vars

(***************************************************************************)
(* Properties of slice_image.                                              *)
(***************************************************************************)
StripMode == s_name \in StripNames
UnionW == PET_CONFIGS[s_name].bbox[3] - PET_CONFIGS[s_name].bbox[1]
UnionH == PET_CONFIGS[s_name].bbox[4] - PET_CONFIGS[s_name].bbox[2]
UnionN == PET_CONFIGS[s_name].count

\* C5: in strip mode, for a union rectangle of width W and height H and frame
\* count N of the layout entry, exactly N slices are cut; slice k spans the
\* columns [k * (W // N), (k + 1) * (W // N)) of the union and its full
\* height, so the slices have equal width W // N, are pairwise disjoint and
\* lie inside the union, and the W mod N columns at the right edge belong to
\* no slice.
C5_StripSlices ==
    StripMode =>
        /\ \A k \in DOMAIN crops :
              /\ crops[k].box = << k * (UnionW \div UnionN), 0,
                                   (k + 1) * (UnionW \div UnionN), UnionH >>
              /\ crops[k].crop.w = UnionW \div UnionN
              /\ crops[k].crop.h = UnionH
              /\ crops[k].box[3] <= UnionW
              /\ crops[k].crop =
                    Crop(s_img,
                         << PET_CONFIGS[s_name].bbox[1] + k * (UnionW \div UnionN),
                            PET_CONFIGS[s_name].bbox[2],
                            PET_CONFIGS[s_name].bbox[1] + (k + 1) * (UnionW \div UnionN),
                            PET_CONFIGS[s_name].bbox[4] >>)
        /\ \A k, l \in DOMAIN crops :
              k < l => crops[k].box[3] <= crops[l].box[1]
        /\ s_pc = "done" =>
              /\ DOMAIN crops = 0 .. (UnionN - 1)
              /\ \A x \in (UnionN * (UnionW \div UnionN)) .. (UnionW - 1) :
                    \A k \in DOMAIN crops :
                        ~(crops[k].box[1] <= x /\ x < crops[k].box[3])

\* a strip whose width is no multiple of the count, with a sprite reaching
\* into the leftover columns, cut completely
C5_Witness ==
    /\ StripMode
    /\ s_pc = "done"
    /\ UnionW % UnionN # 0
    /\ \E r \in s_img.rects :
          r.x2 > PET_CONFIGS[s_name].bbox[1] + UnionN * (UnionW \div UnionN)
    /\ Cardinality(DOMAIN frames) = 4

Shift(r, dx, dy) == Rect(r.x1 + dx, r.y1 + dy, r.x2 + dx, r.y2 + dy, r.a)

IsTransparent(im) == GetBBox(im) = None

\* C7: in both modes, when the crop for index k is fully transparent no frame
\* is produced for k and the skip is reported for k, and every other index
\* of the sheet is produced under its own index.
C7_TransparentCropSkippedAndReported ==
    s_pc = "done" =>
        \A k \in DOMAIN crops :
            IF IsTransparent(crops[k].crop)
            THEN /\ k \notin DOMAIN frames
                 /\ \E j \in DOMAIN out : out[j] = << "skipped", k >>
            ELSE k \in DOMAIN frames

\* C8: in both modes the content handed to normalization is the crop
\* re-cropped to its tight alpha bounding box, so in every saved frame the
\* bounding box of the visible content is centered, opposite margins
\* differing by at most one pixel.
C8_VisibleContentCentered ==
    \A k \in DOMAIN frames :
        LET b == GetBBox(frames[k].image)
            t == GetBBox(crops[k].crop)
        IN  /\ t # None => frames[k].content = Crop(crops[k].crop, t)
            /\ b # None =>
                  /\ Abs(b[1] - (TARGET_SIZE - b[3])) <= 1
                  /\ Abs(b[2] - (TARGET_SIZE - b[4])) <= 1

====
